---- MODULE Spec2Model ----
(***************************************************************************)
(* Order execution engine: OrderService.processOrder (the order lifecycle),*)
(* MockDexRouter (quote aggregation and venue selection), OrderModel (the  *)
(* order store) and QueueService (a BullMQ queue and worker configured     *)
(* with a concurrency cap, a rate limiter, attempts and exponential        *)
(* backoff).                                                               *)
(*                                                                         *)
(* processOrder is an async function: one action of the model is one of    *)
(* its resumptions (the awaited call settles and the code runs to the next *)
(* await).  The store write of updateOrderStatus and the emit that follows *)
(* its await are two steps.                                                *)
(*                                                                         *)
(* Amounts that reach DECIMAL(20,8) columns are integers counted in units  *)
(* of 10^-9, so that the column's rounding to 8 places is a real           *)
(* conversion; amountIn is counted in whole tokens.  Time is counted in    *)
(* milliseconds and advances in steps of TickMs.                           *)
(***************************************************************************)
EXTENDS Integers, Sequences, FiniteSets, TLC

VARIABLES
    store,        \* orders table: order id -> row (OrderModel)
    jobs,         \* BullMQ job per jobId (= order id), with processOrder's locals
    waiting,      \* BullMQ wait list, FIFO
    rlCount,      \* rate limiter key: jobs moved to active in the open window
    rlTtl,        \* rate limiter key: ms until the window expires (0: no key)
    shutdown,     \* QueueService.close(): "open", "closing", "closed"
    ignoredAdds,  \* history: how many addOrder calls met a job of the same id
    router,       \* which IDexRouter the OrderService was constructed with
    concurrency,  \* the worker's concurrency option, config.queue.maxConcurrentOrders
    selQuotes,    \* input of a direct selectBestDex call
    selResult,    \* its outcome
    statusCallbacks, \* OrderService.statusCallbacks: order id -> the handler registered
    gqProvider,   \* input of a direct getQuote call
    gqResult,     \* its outcome
    http,         \* the POST /api/orders/execute request being handled
    stats,        \* the getQueueStats call in progress and the counts it has read
    gaResult,     \* outcome of a direct getAllQuotes call
    lastRegistered, \* history: order id -> the handler of the last register call
                  \* that no unregister call has followed
    gaCall        \* a direct getAllQuotes call with its getQuote timers and the clock

vars == <<store, jobs, waiting, rlCount, rlTtl, shutdown, ignoredAdds, router,
          concurrency,
          selQuotes, selResult, statusCallbacks, gqProvider, gqResult, http,
          stats, gaResult, lastRegistered, gaCall>>

\* what is fixed when the services are constructed
built == <<router, concurrency>>

\* what only the direct calls of getQueueStats and getAllQuotes write
probe == <<stats, gaResult, lastRegistered, gaCall>>

\* what the queue, the worker and processOrder never write
apart == <<statusCallbacks, gqProvider, gqResult, http, probe>>

------------------------------------------------------------------------------
(* Bounds of the model *)

MaxIgnoredAdds == 1
MaxQuotes == 3
TicksPerWindow == 2

\* the order ids in play (uuids)
OrderIds == {"o1", "o2"}

(* Configuration (src/config/index.ts reads each from the environment; the
   model runs with MAX_CONCURRENT_ORDERS=1, ORDERS_PER_MINUTE=2 and the
   default MAX_RETRY_ATTEMPTS) and the literals of QueueService *)

maxConcurrentOrders == 1
ordersPerMinute == 2
maxRetryAttempts == 3
RateLimitDuration == 60000
BackoffDelay == 2000

\* time advances TicksPerWindow times in one limiter window
TickMs == RateLimitDuration \div TicksPerWindow

------------------------------------------------------------------------------
(* Types *)

\* absent values: a string, a number, a record
NULL == "null"
NoNumber == 0 - 1
NoRecord == << >>

\* no request is being handled by the route
NoRequest ==
    [pc |-> "idle", body |-> NoRecord, upgrade |-> FALSE, orderId |-> NULL,
     status |-> NoNumber, sent |-> NoRecord]

\* statusCallbacks.get(orderId) is undefined
NoHandler == NULL

\* the functions given to registerStatusCallback
Handlers == {"h1", "h2"}

\* no timed getAllQuotes call yet
NoCall ==
    [pc |-> "idle", latency |-> << >>, due |-> << >>, clock |-> 0, answers |-> << >>,
     result |-> NoRecord, elapsed |-> NoNumber]

\* no getQueueStats call in progress
NoStats ==
    [pc |-> "idle", added |-> 0, waiting |-> 0, active |-> 0, completed |-> 0,
     failed |-> 0]

PENDING == "pending"
ROUTING == "routing"
BUILDING == "building"
SUBMITTED == "submitted"
CONFIRMED == "confirmed"
FAILED == "failed"

OrderStatus == {PENDING, ROUTING, BUILDING, SUBMITTED, CONFIRMED, FAILED}

MARKET == "market"
LIMIT == "limit"
SNIPER == "sniper"
OrderType == {MARKET, LIMIT, SNIPER}

RAYDIUM == "raydium"
METEORA == "meteora"
DexProvider == {RAYDIUM, METEORA}

IsTerminal(status) == status \in {CONFIRMED, FAILED}

Max(a, b) == IF a >= b THEN a ELSE b

RECURSIVE Pow2(_)
Pow2(n) == IF n <= 0 THEN 1 ELSE 2 * Pow2(n - 1)

------------------------------------------------------------------------------
(* OrderModel: the orders table *)

\* a DECIMAL(20,8) column keeps 8 places: a value in units of 10^-9 is
\* rounded to a multiple of 10
ToDecimal8(x) == ((x + 5) \div 10) * 10

OrderRequests ==
    { [userId |-> "user-1", type |-> MARKET, tokenIn |-> "SOL", tokenOut |-> "USDC",
       amountIn |-> 2] }

\* OrderService.createOrder + OrderModel.create: the row of a new order
NewOrder(id, request) ==
    [ id            |-> id,
      userId        |-> request.userId,
      type          |-> request.type,
      tokenIn       |-> request.tokenIn,
      tokenOut      |-> request.tokenOut,
      amountIn      |-> request.amountIn,
      amountOut     |-> NoNumber,
      status        |-> PENDING,
      dexProvider   |-> NULL,
      txHash        |-> NULL,
      executedPrice |-> NoNumber,
      error         |-> NULL,
      retryCount    |-> 0 ]

\* the `updates` argument of updateStatus; NULL is an absent key
NoUpdates ==
    [ dexProvider |-> NULL, txHash |-> NULL, executedPrice |-> NoNumber,
      amountOut |-> NoNumber, error |-> NULL, retryCount |-> NoNumber ]

\* faulty variant: the amount received is written to amount_in as well
UpdateStatusOverwritesAmountIn(row, status, updates) ==
    [ row EXCEPT
        !.status        = status,
        !.dexProvider   = IF updates.dexProvider \notin {NULL, ""}
                          THEN updates.dexProvider ELSE @,
        !.txHash        = IF updates.txHash \notin {NULL, ""}
                          THEN updates.txHash ELSE @,
        !.executedPrice = IF updates.executedPrice # NoNumber
                          THEN ToDecimal8(updates.executedPrice) ELSE @,
        !.amountIn      = IF updates.amountOut # NoNumber
                          THEN ToDecimal8(updates.amountOut) ELSE @,
        !.amountOut     = IF updates.amountOut # NoNumber
                          THEN ToDecimal8(updates.amountOut) ELSE @,
        !.error         = IF updates.error \notin {NULL, ""}
                          THEN updates.error ELSE @,
        !.retryCount    = IF updates.retryCount # NoNumber
                          THEN updates.retryCount ELSE @ ]

\* OrderModel.updateStatus: status is always written; a field is written
\* only when its key passes the test made on it
UpdateStatus(row, status, updates) ==
    [ row EXCEPT
        !.status        = status,
        !.dexProvider   = IF updates.dexProvider \notin {NULL, ""}
                          THEN updates.dexProvider ELSE @,
        !.txHash        = IF updates.txHash \notin {NULL, ""}
                          THEN updates.txHash ELSE @,
        !.executedPrice = IF updates.executedPrice # NoNumber
                          THEN ToDecimal8(updates.executedPrice) ELSE @,
        !.amountOut     = IF updates.amountOut # NoNumber
                          THEN ToDecimal8(updates.amountOut) ELSE @,
        !.error         = IF updates.error \notin {NULL, ""}
                          THEN updates.error ELSE @,
        !.retryCount    = IF updates.retryCount # NoNumber
                          THEN updates.retryCount ELSE @ ]

------------------------------------------------------------------------------
(* MockDexRouter *)

Providers == <<RAYDIUM, METEORA>>

QuoteAmounts == {10, 12}

Quotes == [provider : DexProvider, amountOut : QuoteAmounts]

RECURSIVE SeqsUpTo(_, _)
SeqsUpTo(S, n) ==
    IF n = 0 THEN { <<>> }
    ELSE LET shorter == SeqsUpTo(S, n - 1)
         IN  shorter \cup { Append(s, x) : s \in { t \in shorter : Len(t) = n - 1 }, x \in S }

\* faulty variant: an unstable insertion: a later quote goes before the equal ones
RECURSIVE InsertDescUnstable(_, _)
InsertDescUnstable(sorted, q) ==
    IF sorted = <<>> THEN <<q>>
    ELSE IF Head(sorted).amountOut > q.amountOut
         THEN <<Head(sorted)>> \o InsertDescUnstable(Tail(sorted), q)
         ELSE <<q>> \o sorted

\* Array.prototype.sort with the comparator (a, b) => b.amountOut - a.amountOut:
\* a stable sort, descending by amountOut
RECURSIVE InsertDesc(_, _)
InsertDesc(sorted, q) ==
    IF sorted = <<>> THEN <<q>>
    ELSE IF Head(sorted).amountOut >= q.amountOut
         THEN <<Head(sorted)>> \o InsertDesc(Tail(sorted), q)
         ELSE <<q>> \o sorted

RECURSIVE SortDesc(_)
SortDesc(quotes) ==
    IF quotes = <<>> THEN <<>>
    ELSE InsertDesc(SortDesc(SubSeq(quotes, 1, Len(quotes) - 1)), quotes[Len(quotes)])

\* faulty variant: no guard for the empty list: no error, no provider
SelectBestDexUnguarded(quotes) ==
    IF Len(quotes) = 0
    THEN [threw |-> FALSE, message |-> NULL, provider |-> NULL]
    ELSE [threw |-> FALSE, message |-> NULL, provider |-> SortDesc(quotes)[1].provider]

\* MockDexRouter.selectBestDex: throws on an empty list, otherwise the
\* provider at the head of the sorted copy
SelectBestDex(quotes) ==
    IF Len(quotes) = 0
    THEN [threw |-> TRUE, message |-> "No quotes available", provider |-> NULL]
    ELSE [threw |-> FALSE, message |-> NULL, provider |-> SortDesc(quotes)[1].provider]

\* outcomes of one getQuote call: a quote of that provider, or a rejection
QuoteErrors == {""}

GetQuoteOutcomes(provider) ==
    { [ok |-> TRUE, quote |-> [provider |-> provider, amountOut |-> a], message |-> NULL]
        : a \in QuoteAmounts }
    \cup { [ok |-> FALSE, quote |-> NoRecord, message |-> m] : m \in QuoteErrors }

\* faulty variant: the quotes that resolved are returned when there are any
GetAllQuotesPartial(outcomes) ==
    LET ok == { i \in 1..Len(outcomes) : outcomes[i].ok }
        Pick(i) == outcomes[CHOOSE k \in ok : Cardinality({ j \in ok : j < k }) = i - 1].quote
    IN  IF ok = {}
        THEN { [ok |-> FALSE, quotes |-> <<>>, message |-> outcomes[i].message]
                 : i \in 1..Len(outcomes) }
        ELSE { [ok |-> TRUE, quotes |-> [i \in 1..Cardinality(ok) |-> Pick(i)],
                message |-> NULL] }

\* faulty variant: the quotes come in the opposite order
GetAllQuotesReversed(outcomes) ==
    IF \E i \in 1..Len(outcomes) : ~outcomes[i].ok
    THEN { [ok |-> FALSE, quotes |-> <<>>, message |-> outcomes[i].message]
             : i \in { k \in 1..Len(outcomes) : ~outcomes[k].ok } }
    ELSE { [ok |-> TRUE, message |-> NULL,
            quotes |-> [i \in 1..Len(outcomes) |-> outcomes[Len(outcomes) + 1 - i].quote]] }

\* MockDexRouter.getAllQuotes: Promise.all over the getQuote calls of
\* Providers: the quotes in that order when every call resolves, otherwise
\* rejected with the error of the call that rejected first (any of them)
GetAllQuotes(outcomes) ==
    IF \E i \in 1..Len(outcomes) : ~outcomes[i].ok
    THEN { [ok |-> FALSE, quotes |-> <<>>, message |-> outcomes[i].message]
             : i \in { k \in 1..Len(outcomes) : ~outcomes[k].ok } }
    ELSE { [ok |-> TRUE, quotes |-> [i \in 1..Len(outcomes) |-> outcomes[i].quote],
            message |-> NULL] }

\* what `await this.dexRouter.getAllQuotes(...)` can settle to: with the
\* MockDexRouter shape, the settlements of its Promise.all; with another
\* IDexRouter (a test double), any DexQuote[] or a rejection
GetAllQuotesOutcomes ==
    IF router = "mock"
    THEN UNION { GetAllQuotes(<<o1, o2>>) : o1 \in GetQuoteOutcomes(Providers[1]),
                                             o2 \in GetQuoteOutcomes(Providers[2]) }
    ELSE { [ok |-> TRUE, quotes |-> qs, message |-> NULL] : qs \in SeqsUpTo(Quotes, 2) }
         \cup { [ok |-> FALSE, quotes |-> <<>>, message |-> m] : m \in QuoteErrors }

\* one getAllQuotes call as processOrder meets it: which of the getQuote calls
\* resolved, and what the call settled to (a test double makes no getQuote
\* calls)
QuoteRounds ==
    IF router = "mock"
    THEN UNION { { [resolved |-> <<o1.ok, o2.ok>>, outcome |-> r]
                     : r \in GetAllQuotes(<<o1, o2>>) }
                 : o1 \in GetQuoteOutcomes(Providers[1]),
                   o2 \in GetQuoteOutcomes(Providers[2]) }
    ELSE { [resolved |-> << >>, outcome |-> r] : r \in GetAllQuotesOutcomes }

\* MockDexRouter.executeSwap: re-quotes the provider (which may reject),
\* applies slippage, and returns txHash, executedPrice = finalAmountOut /
\* amountIn and amountOut = finalAmountOut
Swaps == { [txHash |-> "tx-a", finalAmountOut |-> 30] }
SwapErrors == {"swap rejected"}

ExecuteSwapOutcomes(provider, order) ==
    { [ok |-> TRUE, message |-> NULL,
       result |-> [txHash |-> x.txHash,
                   executedPrice |-> x.finalAmountOut \div order.amountIn,
                   amountOut |-> x.finalAmountOut]]
        : x \in Swaps }
    \cup { [ok |-> FALSE, message |-> m, result |-> NoRecord] : m \in SwapErrors }

------------------------------------------------------------------------------
(* QueueService: the BullMQ queue 'order-execution' and its worker *)

JobStates == {"none", "waiting", "active", "delayed", "completed", "failed"}

\* no job under this jobId
NoJob ==
    [ state        |-> "none",
      attemptsMade |-> 0,      \* BullMQ job.attemptsMade: attempts that threw
      delay        |-> 0,      \* ms until a delayed job is due
      runs         |-> 0,      \* history: processOrder invocations for this job
      pc           |-> "idle", \* the await processOrder is suspended at
      order        |-> NoRecord,  \* processOrder's local `order`
      bestDex      |-> NULL,   \* processOrder's local `bestDex`
      swapResult   |-> NoRecord,  \* processOrder's local `swapResult`
      message      |-> NULL,   \* the caught error's message
      quoted       |-> << >>,  \* history: per provider, whether its getQuote resolved
      quoteCalls   |-> 0,      \* history: getAllQuotes calls of this invocation
      swapCalls    |-> 0,      \* history: executeSwap calls of this invocation
      emits        |-> 0,      \* history: emitStatusUpdate calls of this invocation
      emitted      |-> NULL,   \* history: status of the last update emitted for the order
      persisted    |-> << >>,  \* history: the statuses this invocation has persisted
      received     |-> << >>,  \* history: the statuses its updates carried to a handler
      receiver     |-> NULL ]  \* history: the handler its last delivered update went to

\* the locals of a finished invocation are gone
Settled(job) ==
    [ job EXCEPT !.pc = "idle", !.order = NoRecord, !.bestDex = NULL,
                 !.swapResult = NoRecord, !.message = NULL, !.quoted = << >> ]

ActiveJobs == { id \in OrderIds : jobs[id].state = "active" }

\* faulty variant: the same delay before every retry
BackoffFixed(attemptsMade) == BackoffDelay

\* backoff: { type: 'exponential', delay: 2000 }
Backoff(attemptsMade) == BackoffDelay * Pow2(attemptsMade - 1)

\* faulty variant: one attempt too many before the job is given up
MoveToFailedOffByOne(job) ==
    LET made == job.attemptsMade + 1
    IN  IF made <= maxRetryAttempts
        THEN [ Settled(job) EXCEPT !.state = "delayed", !.attemptsMade = made,
                                   !.delay = Backoff(made) ]
        ELSE [ Settled(job) EXCEPT !.state = "failed", !.attemptsMade = made ]

\* the processor threw: with attempts: maxRetryAttempts the job is delayed
\* for a retry while attempts remain, and otherwise moved to failed
MoveToFailed(job) ==
    LET made == job.attemptsMade + 1
    IN  IF made < maxRetryAttempts
        THEN [ Settled(job) EXCEPT !.state = "delayed", !.attemptsMade = made,
                                   !.delay = Backoff(made) ]
        ELSE [ Settled(job) EXCEPT !.state = "failed", !.attemptsMade = made ]

\* faulty variant: a job whose processor returned is queued for another run
MoveToCompletedRequeued(job) ==
    [ Settled(job) EXCEPT !.state = "delayed", !.delay = 0 ]

\* the processor returned
MoveToCompleted(job) ==
    [ Settled(job) EXCEPT !.state = "completed" ]

\* faulty variant: the worker is created without the limiter option
RateLimitedNever == FALSE

\* limiter: { max: ordersPerMinute, duration: 60000 }
RateLimited == rlTtl > 0 /\ rlCount >= ordersPerMinute

\* faulty variant: the worker is created without the concurrency option
CanFetchUnbounded ==
    /\ shutdown = "open"
    /\ ~RateLimited

\* faulty variant: the worker goes on fetching after close()
CanFetchAfterClose ==
    /\ Cardinality(ActiveJobs) < concurrency
    /\ ~RateLimited

\* faulty variant: the worker takes no job while another is in progress
CanFetchOneAtATime ==
    /\ shutdown = "open"
    /\ ActiveJobs = {}
    /\ ~RateLimited

\* the worker may fetch the next job
CanFetch ==
    /\ shutdown = "open"
    /\ Cardinality(ActiveJobs) < concurrency
    /\ ~RateLimited

\* faulty variant: the jobId is not used to deduplicate
EnqueueWithoutJobId(id) ==
    /\ jobs' = [jobs EXCEPT ![id] = [NoJob EXCEPT !.state = "waiting"]]
    /\ waiting' = Append(waiting, id)

\* orderQueue.add('execute-order', {orderId}, {jobId: orderId})
Enqueue(id) ==
    IF jobs[id].state # "none"
    THEN UNCHANGED <<jobs, waiting>>
    ELSE /\ jobs' = [jobs EXCEPT ![id] = [NoJob EXCEPT !.state = "waiting"]]
         /\ waiting' = Append(waiting, id)
------------------------------------------------------------------------------
(* Initial state: empty table, empty queue, worker running *)

InitBase ==
    /\ store = << >>
    /\ jobs = [id \in OrderIds |-> NoJob]
    /\ waiting = << >>
    /\ rlCount = 0
    /\ rlTtl = 0
    /\ shutdown = "open"
    /\ ignoredAdds = 0
    /\ statusCallbacks = [id \in OrderIds |-> NoHandler]
    /\ lastRegistered = [id \in OrderIds |-> NoHandler]
    /\ gaCall = NoCall
    /\ gqProvider = NULL
    /\ gqResult = NoRecord
    /\ http = NoRequest
    /\ stats = NoStats
    /\ gaResult = NoRecord

Init ==
    /\ InitBase
    /\ router = "mock"
    /\ concurrency = maxConcurrentOrders
    /\ selQuotes = << >>
    /\ selResult = NoRecord

------------------------------------------------------------------------------
(* OrderService.createOrder and QueueService.addOrder *)

\* createOrder(request): a fresh uuid, one row with status PENDING
CreateOrder(id, request) ==
    /\ id \notin DOMAIN store
    /\ jobs[id].state = "none"
    /\ store' = [i \in DOMAIN store \cup {id} |->
                    IF i = id THEN NewOrder(id, request) ELSE store[i]]
    /\ UNCHANGED <<jobs, waiting, rlCount, rlTtl, shutdown, ignoredAdds, built,
                   selQuotes, selResult, apart>>

\* addOrder(orderId): a second add under the same jobId is ignored
AddOrder(id) ==
    /\ shutdown # "closed"
    /\ jobs[id].state # "none" => ignoredAdds < MaxIgnoredAdds
    /\ ignoredAdds' = IF jobs[id].state # "none" THEN ignoredAdds + 1
                                                  ELSE ignoredAdds
    /\ Enqueue(id)
    /\ UNCHANGED <<store, rlCount, rlTtl, shutdown, built, selQuotes, selResult, apart>>

------------------------------------------------------------------------------
(* The worker *)

\* faulty variant: the job is started and stays in the wait list
StartJobLeavesWaiting(id) ==
    /\ CanFetch
    /\ waiting # << >>
    /\ Head(waiting) = id
    /\ jobs' = [jobs EXCEPT ![id] =
                  [@ EXCEPT !.state = "active", !.pc = "findById", !.runs = @ + 1,
                            !.quoteCalls = 0, !.swapCalls = 0, !.emits = 0,
                            !.persisted = << >>, !.received = << >>,
                            !.receiver = NULL]]
    /\ rlCount' = IF rlTtl = 0 THEN 1 ELSE rlCount + 1
    /\ rlTtl' = IF rlTtl = 0 THEN RateLimitDuration ELSE rlTtl
    /\ UNCHANGED <<store, waiting, shutdown, ignoredAdds, built, selQuotes, selResult, apart>>

\* the worker moves the job at the head of the wait list to active and calls
\* the processor, which calls processOrder(orderId)
StartJob(id) ==
    /\ CanFetch
    /\ waiting # << >>
    /\ Head(waiting) = id
    /\ waiting' = Tail(waiting)
    /\ jobs' = [jobs EXCEPT ![id] =
                  [@ EXCEPT !.state = "active", !.pc = "findById", !.runs = @ + 1,
                            !.quoteCalls = 0, !.swapCalls = 0, !.emits = 0,
                            !.persisted = << >>, !.received = << >>,
                            !.receiver = NULL]]
    /\ rlCount' = IF rlTtl = 0 THEN 1 ELSE rlCount + 1
    /\ rlTtl' = IF rlTtl = 0 THEN RateLimitDuration ELSE rlTtl
    /\ UNCHANGED <<store, shutdown, ignoredAdds, built, selQuotes, selResult, apart>>

\* faulty variant: the scheduler counts the retry on the stored order
PromoteDelayedCountsRetry(id) ==
    /\ shutdown = "open"
    /\ jobs[id].state = "delayed"
    /\ jobs[id].delay = 0
    /\ jobs' = [jobs EXCEPT ![id].state = "waiting"]
    /\ waiting' = Append(waiting, id)
    /\ store' = [i \in DOMAIN store |->
                    IF i = id THEN [store[i] EXCEPT !.retryCount = @ + 1] ELSE store[i]]
    /\ UNCHANGED <<rlCount, rlTtl, shutdown, ignoredAdds, built, selQuotes, selResult, apart>>

\* a delayed job whose backoff has elapsed goes back to the wait list
PromoteDelayed(id) ==
    /\ shutdown = "open"
    /\ jobs[id].state = "delayed"
    /\ jobs[id].delay = 0
    /\ jobs' = [jobs EXCEPT ![id].state = "waiting"]
    /\ waiting' = Append(waiting, id)
    /\ UNCHANGED <<store, rlCount, rlTtl, shutdown, ignoredAdds, built,
                   selQuotes, selResult, apart>>

\* TickMs of time pass: the limiter key and the backoff delays run down
Tick ==
    /\ \/ rlTtl > 0
       \/ \E id \in OrderIds : jobs[id].state = "delayed" /\ jobs[id].delay > 0
    /\ rlTtl' = Max(0, rlTtl - TickMs)
    /\ rlCount' = IF rlTtl' = 0 THEN 0 ELSE rlCount
    /\ jobs' = [id \in OrderIds |->
                  IF jobs[id].state = "delayed"
                  THEN [jobs[id] EXCEPT !.delay = Max(0, @ - TickMs)]
                  ELSE jobs[id]]
    /\ UNCHANGED <<store, waiting, shutdown, ignoredAdds, built, selQuotes, selResult, apart>>

\* close(): worker.close() stops fetching and waits for the active jobs
CloseBegin ==
    /\ shutdown = "open"
    /\ shutdown' = "closing"
    /\ UNCHANGED <<store, jobs, waiting, rlCount, rlTtl, ignoredAdds, built,
                   selQuotes, selResult, apart>>

\* close(): the active jobs are done; the queue and the connection close
CloseEnd ==
    /\ shutdown = "closing"
    /\ ActiveJobs = {}
    /\ shutdown' = "closed"
    /\ UNCHANGED <<store, jobs, waiting, rlCount, rlTtl, ignoredAdds, built,
                   selQuotes, selResult, apart>>
------------------------------------------------------------------------------
(* OrderService.processOrder, one action per resumption *)

At(id, pc) == jobs[id].state = "active" /\ jobs[id].pc = pc

QueueUnchanged == UNCHANGED <<waiting, rlCount, rlTtl, shutdown, ignoredAdds, built,
                              selQuotes, selResult, apart>>

\* faulty variant: the caught message is used as it is
ErrorMessageRaw(message) == message

\* the catch block's `error.message || 'Unknown error occurred'`
ErrorMessage(message) == IF message \in {NULL, ""} THEN "Unknown error occurred" ELSE message

\* updateOrderStatus, first half: `await this.orderModel.updateStatus(...)`
PersistStatus(id, pc, status, updates, next) ==
    /\ At(id, pc)
    /\ store' = [store EXCEPT ![id] = UpdateStatus(@, status, updates)]
    /\ jobs' = [jobs EXCEPT ![id].pc = next, ![id].persisted = Append(@, status)]
    /\ QueueUnchanged

\* faulty variant: the update carries the status the order had before
EmitStatusUpdateStale(job, status, handler) ==
    [job EXCEPT !.emits = @ + 1, !.emitted = status,
                !.received = IF handler # NoHandler
                             THEN Append(@, IF job.emitted = NULL THEN PENDING
                                                                  ELSE job.emitted)
                             ELSE @,
                !.receiver = IF handler # NoHandler THEN handler ELSE @]

\* updateOrderStatus, second half: emitStatusUpdate(orderId, {...}), where
\* `callback` is statusCallbacks.get(orderId)
EmitStatusUpdate(job, status, handler) ==
    [job EXCEPT !.emits = @ + 1, !.emitted = status,
                !.received = IF handler # NoHandler THEN Append(@, status) ELSE @,
                !.receiver = IF handler # NoHandler THEN handler ELSE @]

\* emitStatusUpdate calls the handler registered for the order, if there is
\* one, with nothing around the call: the handler returns or throws
HandlerFailed == "handler failed"
Deliveries(id) ==
    IF statusCallbacks[id] # NoHandler THEN {"returned", "threw"} ELSE {"returned"}

\* an exception inside the try block of processOrder: the catch block runs
Caught(job, message) ==
    [job EXCEPT !.pc = "toFailed", !.message = ErrorMessage(message)]

\* what processOrder keeps of the row findById returned: the fields it reads
\* later or hands to executeSwap, and the status the row had
Loaded(row) ==
    [ id |-> row.id, tokenIn |-> row.tokenIn, tokenOut |-> row.tokenOut,
      amountIn |-> row.amountIn, status |-> row.status ]

\* faulty variant: an absent order is reported to the subscriber as FAILED
\* before the invocation fails
FindByIdEmitsNotFound(id) ==
    /\ At(id, "findById")
    /\ jobs' = [jobs EXCEPT ![id] =
                  IF id \notin DOMAIN store
                  THEN MoveToFailed(EmitStatusUpdate(@, FAILED, statusCallbacks[id]))
                  ELSE [@ EXCEPT !.order = Loaded(store[id]), !.pc = "toRouting"]]
    /\ UNCHANGED store
    /\ QueueUnchanged

\* faulty variant: an invocation that finds the swap of an earlier attempt
\* recorded on the order returns at once
FindByIdSkipsExecuted(id) ==
    /\ At(id, "findById")
    /\ jobs' = [jobs EXCEPT ![id] =
                  IF id \notin DOMAIN store
                  THEN MoveToFailed(@)
                  ELSE IF store[id].txHash # NULL
                  THEN MoveToCompleted(@)
                  ELSE [@ EXCEPT !.order = Loaded(store[id]), !.pc = "toRouting"]]
    /\ UNCHANGED store
    /\ QueueUnchanged

\* line 68: findById; an absent order throws before the try block, else the
\* try block starts with updateOrderStatus(ROUTING)
FindById(id) ==
    /\ At(id, "findById")
    /\ jobs' = [jobs EXCEPT ![id] =
                  IF id \notin DOMAIN store
                  THEN MoveToFailed(@)
                  ELSE [@ EXCEPT !.order = Loaded(store[id]), !.pc = "toRouting"]]
    /\ UNCHANGED store
    /\ QueueUnchanged

\* line 75
PersistRouting(id) ==
    PersistStatus(id, "toRouting", ROUTING, NoUpdates, "emitRouting")

\* lines 75-80: the emit, sleep(100), then getAllQuotes is called
EmitRouting(id) ==
    /\ At(id, "emitRouting")
    /\ \E delivery \in Deliveries(id) :
         jobs' = [jobs EXCEPT ![id] =
                    IF delivery = "threw"
                    THEN Caught(EmitStatusUpdate(@, ROUTING, statusCallbacks[id]), HandlerFailed)
                    ELSE [EmitStatusUpdate(@, ROUTING, statusCallbacks[id])
                            EXCEPT !.pc = "getAllQuotes", !.quoteCalls = @ + 1]]
    /\ UNCHANGED store
    /\ QueueUnchanged

\* faulty variant: a failed quote fetch or selection is swallowed and the
\* invocation goes on with the provider it has
GetAllQuotesSettlesSwallowsFailure(id) ==
    /\ At(id, "getAllQuotes")
    /\ \E round \in QuoteRounds :
         LET outcome == round.outcome
             best == SelectBestDex(outcome.quotes)
         IN  jobs' = [jobs EXCEPT ![id] =
                        IF ~outcome.ok \/ best.threw
                        THEN [@ EXCEPT !.pc = "toBuilding", !.quoted = round.resolved]
                        ELSE [@ EXCEPT !.pc = "toBuilding", !.quoted = round.resolved,
                                       !.bestDex = best.provider]]
    /\ UNCHANGED store
    /\ QueueUnchanged

\* lines 80-91: getAllQuotes settles; selectBestDex; updateOrderStatus(BUILDING)
\* is called, or the catch block is entered
GetAllQuotesSettles(id) ==
    /\ At(id, "getAllQuotes")
    /\ \E round \in QuoteRounds :
         LET outcome == round.outcome
             best == SelectBestDex(outcome.quotes)
         IN  jobs' = [jobs EXCEPT ![id] =
                        IF ~outcome.ok
                        THEN [@ EXCEPT !.pc = "toFailed", !.quoted = round.resolved,
                                       !.message = ErrorMessage(outcome.message)]
                        ELSE IF best.threw
                        THEN [@ EXCEPT !.pc = "toFailed", !.quoted = round.resolved,
                                       !.message = ErrorMessage(best.message)]
                        ELSE [@ EXCEPT !.pc = "toBuilding", !.quoted = round.resolved,
                                       !.bestDex = best.provider]]
    /\ UNCHANGED store
    /\ QueueUnchanged

\* line 91
PersistBuilding(id) ==
    PersistStatus(id, "toBuilding", BUILDING,
                  [NoUpdates EXCEPT !.dexProvider = jobs[id].bestDex], "emitBuilding")

\* lines 91-95: the emit, sleep(500), then updateOrderStatus(SUBMITTED) is called
EmitBuilding(id) ==
    /\ At(id, "emitBuilding")
    /\ \E delivery \in Deliveries(id) :
         jobs' = [jobs EXCEPT ![id] =
                    IF delivery = "threw"
                    THEN Caught(EmitStatusUpdate(@, BUILDING, statusCallbacks[id]), HandlerFailed)
                    ELSE [EmitStatusUpdate(@, BUILDING, statusCallbacks[id])
                            EXCEPT !.pc = "toSubmitted"]]
    /\ UNCHANGED store
    /\ QueueUnchanged

\* line 95
PersistSubmitted(id) ==
    PersistStatus(id, "toSubmitted", SUBMITTED,
                  [NoUpdates EXCEPT !.dexProvider = jobs[id].bestDex], "emitSubmitted")

\* lines 95-100: the emit, sleep(200), then executeSwap is called
EmitSubmitted(id) ==
    /\ At(id, "emitSubmitted")
    /\ \E delivery \in Deliveries(id) :
         jobs' = [jobs EXCEPT ![id] =
                    IF delivery = "threw"
                    THEN Caught(EmitStatusUpdate(@, SUBMITTED, statusCallbacks[id]), HandlerFailed)
                    ELSE [EmitStatusUpdate(@, SUBMITTED, statusCallbacks[id])
                            EXCEPT !.pc = "executeSwap", !.swapCalls = @ + 1]]
    /\ UNCHANGED store
    /\ QueueUnchanged

\* lines 100-103: executeSwap settles; updateOrderStatus(CONFIRMED) is called,
\* or the catch block is entered
ExecuteSwapSettles(id) ==
    /\ At(id, "executeSwap")
    /\ \E outcome \in ExecuteSwapOutcomes(jobs[id].bestDex, jobs[id].order) :
         jobs' = [jobs EXCEPT ![id] =
                    IF outcome.ok
                    THEN [@ EXCEPT !.pc = "toConfirmed", !.swapResult = outcome.result]
                    ELSE [@ EXCEPT !.pc = "toFailed",
                                   !.message = ErrorMessage(outcome.message)]]
    /\ UNCHANGED store
    /\ QueueUnchanged

\* faulty variant: CONFIRMED is written without the amount received
PersistConfirmedNoAmount(id) ==
    PersistStatus(id, "toConfirmed", CONFIRMED,
                  [NoUpdates EXCEPT !.dexProvider = jobs[id].bestDex,
                                    !.txHash = jobs[id].swapResult.txHash,
                                    !.executedPrice = jobs[id].swapResult.executedPrice],
                  "emitConfirmed")

\* lines 103-108
PersistConfirmed(id) ==
    PersistStatus(id, "toConfirmed", CONFIRMED,
                  [NoUpdates EXCEPT !.dexProvider = jobs[id].bestDex,
                                    !.txHash = jobs[id].swapResult.txHash,
                                    !.executedPrice = jobs[id].swapResult.executedPrice,
                                    !.amountOut = jobs[id].swapResult.amountOut],
                  "emitConfirmed")

\* lines 103-110: the emit; processOrder returns and the job is completed
EmitConfirmed(id) ==
    /\ At(id, "emitConfirmed")
    /\ \E delivery \in Deliveries(id) :
         jobs' = [jobs EXCEPT ![id] =
                    IF delivery = "threw"
                    THEN Caught(EmitStatusUpdate(@, CONFIRMED, statusCallbacks[id]), HandlerFailed)
                    ELSE MoveToCompleted(EmitStatusUpdate(@, CONFIRMED, statusCallbacks[id]))]
    /\ UNCHANGED store
    /\ QueueUnchanged

\* faulty variant: the catch block throws again without writing FAILED
PersistFailedSkipped(id) ==
    /\ At(id, "toFailed")
    /\ jobs' = [jobs EXCEPT ![id].pc = "emitFailed"]
    /\ UNCHANGED store
    /\ QueueUnchanged

\* faulty variant: FAILED is written without the error text
PersistFailedNoError(id) ==
    PersistStatus(id, "toFailed", FAILED, NoUpdates, "emitFailed")

\* lines 115-117
PersistFailed(id) ==
    PersistStatus(id, "toFailed", FAILED,
                  [NoUpdates EXCEPT !.error = jobs[id].message], "emitFailed")

\* lines 115-119: the emit; the error is thrown again, through the processor,
\* to the worker (as is the handler's, when the handler throws here)
EmitFailed(id) ==
    /\ At(id, "emitFailed")
    /\ jobs' = [jobs EXCEPT ![id] = MoveToFailed(EmitStatusUpdate(@, FAILED, statusCallbacks[id]))]
    /\ UNCHANGED store
    /\ QueueUnchanged

------------------------------------------------------------------------------
(* Specification *)

ProcessOrder(id) ==
    \/ FindById(id)
    \/ PersistRouting(id)
    \/ EmitRouting(id)
    \/ GetAllQuotesSettles(id)
    \/ PersistBuilding(id)
    \/ EmitBuilding(id)
    \/ PersistSubmitted(id)
    \/ EmitSubmitted(id)
    \/ ExecuteSwapSettles(id)
    \/ PersistConfirmed(id)
    \/ EmitConfirmed(id)
    \/ PersistFailed(id)
    \/ EmitFailed(id)

Next ==
    \/ \E id \in OrderIds, request \in OrderRequests : CreateOrder(id, request)
    \/ \E id \in OrderIds : AddOrder(id)
    \/ \E id \in OrderIds : StartJob(id)
    \/ \E id \in OrderIds : ProcessOrder(id)
    \/ \E id \in OrderIds : PromoteDelayed(id)
    \/ Tick
    \/ CloseBegin
    \/ CloseEnd

Spec == Init /\ [][Next]_vars

(* The same system while it is never shut down, with the scheduling the
   runtime gives: a settled await resumes its continuation, the worker keeps
   fetching, time passes *)

NextLive ==
    \/ \E id \in OrderIds, request \in OrderRequests : CreateOrder(id, request)
    \/ \E id \in OrderIds : AddOrder(id)
    \/ \E id \in OrderIds : StartJob(id)
    \/ \E id \in OrderIds : ProcessOrder(id)
    \/ \E id \in OrderIds : PromoteDelayed(id)
    \/ Tick

Fairness ==
    /\ \A id \in OrderIds : WF_vars(StartJob(id))
    /\ \A id \in OrderIds : WF_vars(ProcessOrder(id))
    /\ \A id \in OrderIds : WF_vars(PromoteDelayed(id))
    /\ WF_vars(Tick)

LiveSpec == Init /\ [][NextLive]_vars /\ Fairness

(* The worker with room for two jobs (MAX_CONCURRENT_ORDERS=2), first attempt
   of each job; the venue calls of one order may stay unanswered for ever *)

PoolConcurrency == 2

InitPool ==
    /\ InitBase
    /\ router = "mock"
    /\ concurrency = PoolConcurrency
    /\ selQuotes = << >>
    /\ selResult = NoRecord

NextPool ==
    \/ \E id \in OrderIds, request \in OrderRequests : CreateOrder(id, request)
    \/ \E id \in OrderIds : AddOrder(id)
    \/ \E id \in OrderIds : StartJob(id)
    \/ \E id \in OrderIds : ProcessOrder(id)

\* the order whose job may hang in a venue call
Hanging == "o1"

\* the worker keeps fetching and the continuations of the other jobs run
PoolFairness ==
    /\ \A id \in OrderIds \ {Hanging} : WF_vars(StartJob(id))
    /\ \A id \in OrderIds \ {Hanging} : WF_vars(ProcessOrder(id))

PoolSpec == InitPool /\ [][NextPool]_vars /\ PoolFairness

(* A direct call of selectBestDex, as the router's unit tests make it *)

CallSelectBestDex ==
    /\ selResult = NoRecord
    /\ selResult' = SelectBestDex(selQuotes)
    /\ UNCHANGED <<store, jobs, waiting, rlCount, rlTtl, shutdown, ignoredAdds,
                   built, selQuotes, apart>>

InitSelect ==
    /\ InitBase
    /\ router = "mock"
    /\ concurrency = maxConcurrentOrders
    /\ selQuotes \in SeqsUpTo(Quotes, MaxQuotes)
    /\ selResult = NoRecord

NextSelect == CallSelectBestDex

SelectSpec == InitSelect /\ [][NextSelect]_vars

(* Direct calls of the router's getQuote and selectBestDex; getQuote takes its
   provider argument as it comes and has no branch that throws *)

\* a provider identifier that is not in the DexProvider enum
UnknownProviders == {"orca"}

\* getQuote's fee, in units of 10^-4: 0.003 when the provider is Raydium, and
\* 0.002 in the else branch
QuoteFee(provider) == IF provider = RAYDIUM THEN 30 ELSE 20

CallGetQuote ==
    /\ gqResult = NoRecord
    /\ \E provider \in DexProvider \cup UnknownProviders :
         /\ gqProvider' = provider
         /\ \E outcome \in { o \in GetQuoteOutcomes(provider) : o.ok } :
              gqResult' = [outcome |-> outcome, fee |-> QuoteFee(provider)]
    /\ UNCHANGED <<store, jobs, waiting, rlCount, rlTtl, shutdown, ignoredAdds, built,
                   selQuotes, selResult, statusCallbacks, http, probe>>

\* a direct getAllQuotes call: the two getQuote calls run concurrently, either
\* may settle first, and Promise.all settles
CallGetAllQuotes ==
    /\ gaResult = NoRecord
    /\ \E o1 \in GetQuoteOutcomes(Providers[1]), o2 \in GetQuoteOutcomes(Providers[2]) :
         \E first \in DexProvider, r \in GetAllQuotes(<<o1, o2>>) :
              gaResult' = [first |-> first, outcome |-> r]
    /\ UNCHANGED <<store, jobs, waiting, rlCount, rlTtl, shutdown, ignoredAdds, built,
                   selQuotes, selResult, statusCallbacks, gqProvider, gqResult, http,
                   stats, lastRegistered, gaCall>>

NextRouter ==
    \/ CallSelectBestDex
    \/ CallGetQuote
    \/ CallGetAllQuotes

RouterSpec == InitSelect /\ [][NextRouter]_vars

(* A getAllQuotes call in time: each getQuote call sleeps 150 + random * 150 ms
   before it answers, and the clock moves from one due timer to the next *)

\* sleep(150 + Math.random() * 150), in ms
Latencies == {150, 200, 299}

CallUnchanged ==
    UNCHANGED <<store, jobs, waiting, rlCount, rlTtl, shutdown, ignoredAdds, built,
                selQuotes, selResult, statusCallbacks, gqProvider, gqResult, http,
                stats, gaResult, lastRegistered>>

Pending(call) == { i \in 1..Len(call.answers) : call.answers[i] = NoRecord }
Rejected(call) ==
    { i \in 1..Len(call.answers) : call.answers[i] # NoRecord /\ ~call.answers[i].ok }

\* faulty variant: the second getQuote call is made when the first has answered
GetAllQuotesStartsInTurn ==
    /\ gaCall.pc = "idle"
    /\ \E l1 \in Latencies, l2 \in Latencies :
         gaCall' = [NoCall EXCEPT !.pc = "pending", !.latency = <<l1, l2>>,
                                  !.due = <<l1, l1 + l2>>,
                                  !.answers = <<NoRecord, NoRecord>>]
    /\ CallUnchanged

\* providers.map(...): both getQuote calls are made, each runs to its sleep,
\* and Promise.all waits for them
GetAllQuotesStarts ==
    /\ gaCall.pc = "idle"
    /\ \E l1 \in Latencies, l2 \in Latencies :
         gaCall' = [NoCall EXCEPT !.pc = "pending", !.latency = <<l1, l2>>,
                                  !.due = <<l1, l2>>,
                                  !.answers = <<NoRecord, NoRecord>>]
    /\ CallUnchanged

\* the timer of a getQuote call is due: the call goes on and settles
GetQuoteAnswers(i) ==
    /\ gaCall.pc = "pending"
    /\ Rejected(gaCall) = {}
    /\ i \in Pending(gaCall)
    /\ gaCall.due[i] <= gaCall.clock
    /\ \E o \in GetQuoteOutcomes(Providers[i]) :
         gaCall' = [gaCall EXCEPT !.answers[i] = o]
    /\ CallUnchanged

\* no timer is due: time passes until the next one is
TimePasses ==
    /\ gaCall.pc = "pending"
    /\ Rejected(gaCall) = {}
    /\ Pending(gaCall) # {}
    /\ \A i \in Pending(gaCall) : gaCall.due[i] > gaCall.clock
    /\ \E i \in Pending(gaCall) :
         /\ \A j \in Pending(gaCall) : gaCall.due[i] <= gaCall.due[j]
         /\ gaCall' = [gaCall EXCEPT !.clock = gaCall.due[i]]
    /\ CallUnchanged

\* Promise.all settles: rejected with the first rejection, or resolved when
\* every call has answered
PromiseAllSettles ==
    /\ gaCall.pc = "pending"
    /\ \/ Rejected(gaCall) # {}
       \/ Pending(gaCall) = {}
    /\ \E r \in IF Rejected(gaCall) # {}
                 THEN { [ok |-> FALSE, quotes |-> <<>>,
                         message |-> gaCall.answers[i].message] : i \in Rejected(gaCall) }
                 ELSE GetAllQuotes(gaCall.answers) :
         gaCall' = [gaCall EXCEPT !.pc = "done", !.result = r, !.elapsed = gaCall.clock]
    /\ CallUnchanged

NextTimed ==
    \/ GetAllQuotesStarts
    \/ \E i \in 1..Len(Providers) : GetQuoteAnswers(i)
    \/ TimePasses
    \/ PromiseAllSettles

TimedSpec == Init /\ [][NextTimed]_vars

(* The route POST /api/orders/execute, one request at a time *)

\* reply.status(400), reply.status(201), and reply.send without a status
BadRequest == 400
Created == 201
Ok == 200
InternalError == 500

\* request bodies: well-formed ones and ones with an empty userId, an empty
\* tokenIn, an amountIn that is not positive, or a type outside the enum
Bodies ==
    [ userId : {"", "user-1"}, type : OrderType \cup {"stop"}, tokenIn : {"", "SOL"},
      tokenOut : {"USDC"}, amountIn : {0, 2} ]

\* orderRequestSchema.parse(request.body) does not throw
SchemaAccepts(body) ==
    /\ body.userId # ""
    /\ body.type \in OrderType
    /\ body.tokenIn # ""
    /\ body.tokenOut # ""
    /\ body.amountIn > 0

\* faulty variant: the test of the order type is left out
SupportedAny(body) == TRUE

\* the handler goes on only when `body.type !== OrderType.MARKET` is false
Supported(body) == body.type = MARKET

\* the request arrives: parse, the type test, and the call of createOrder
PostExecute(body, upgrade) ==
    /\ http.pc = "idle"
    /\ http' = IF SchemaAccepts(body) /\ Supported(body)
               THEN [NoRequest EXCEPT !.pc = "createOrder", !.body = body,
                                      !.upgrade = upgrade]
               ELSE [NoRequest EXCEPT !.pc = "replied", !.body = body,
                                      !.upgrade = upgrade, !.status = BadRequest]
    /\ UNCHANGED <<store, jobs, waiting, rlCount, rlTtl, shutdown, ignoredAdds, built,
                   selQuotes, selResult, statusCallbacks, gqProvider, gqResult, probe>>

\* faulty variant: the id is handed to addOrder before the order is saved
PostCreateOrderUnsaved(id) ==
    /\ http.pc = "createOrder"
    /\ id \notin DOMAIN store
    /\ jobs[id].state = "none"
    /\ Enqueue(id)
    /\ http' = [http EXCEPT !.pc = "addOrder", !.orderId = id]
    /\ UNCHANGED <<store, rlCount, rlTtl, shutdown, ignoredAdds, built,
                   selQuotes, selResult, statusCallbacks, gqProvider, gqResult, probe>>

\* `await orderService.createOrder(body)` is done; addOrder(order.id) is called
PostCreateOrder(id) ==
    /\ http.pc = "createOrder"
    /\ id \notin DOMAIN store
    /\ jobs[id].state = "none"
    /\ store' = [i \in DOMAIN store \cup {id} |->
                    IF i = id THEN NewOrder(id, http.body) ELSE store[i]]
    /\ http' = [http EXCEPT !.pc = "addOrder", !.orderId = id]
    /\ UNCHANGED <<jobs, waiting, rlCount, rlTtl, shutdown, ignoredAdds, built,
                   selQuotes, selResult, statusCallbacks, gqProvider, gqResult, probe>>

\* `await queueService.addOrder(order.id)` is done; the reply is sent
PostAddOrder ==
    /\ http.pc = "addOrder"
    /\ Enqueue(http.orderId)
    /\ http' = [http EXCEPT !.pc = "replied",
                            !.status = IF http.upgrade THEN Ok ELSE Created,
                            !.sent = [orderId |-> http.orderId, status |-> "pending"]]
    /\ UNCHANGED <<store, rlCount, rlTtl, shutdown, ignoredAdds, built,
                   selQuotes, selResult, statusCallbacks, gqProvider, gqResult, probe>>

\* `await orderService.createOrder(body)` or `await queueService.addOrder(
\* order.id)` rejects (the database or Redis is down): the catch replies 500
PostRejected ==
    /\ http.pc \in {"createOrder", "addOrder"}
    /\ http' = [http EXCEPT !.pc = "replied", !.status = InternalError]
    /\ UNCHANGED <<store, jobs, waiting, rlCount, rlTtl, shutdown, ignoredAdds, built,
                   selQuotes, selResult, statusCallbacks, gqProvider, gqResult, probe>>

\* the request is over; the route takes the next one
PostDone ==
    /\ http.pc = "replied"
    /\ http' = NoRequest
    /\ UNCHANGED <<store, jobs, waiting, rlCount, rlTtl, shutdown, ignoredAdds, built,
                   selQuotes, selResult, statusCallbacks, gqProvider, gqResult, probe>>

NextRoute ==
    \/ \E body \in Bodies, upgrade \in BOOLEAN : PostExecute(body, upgrade)
    \/ \E id \in OrderIds : PostCreateOrder(id)
    \/ PostAddOrder
    \/ PostRejected
    \/ PostDone

RouteSpec == Init /\ [][NextRoute]_vars

(* The OrderService constructed with another IDexRouter than the mock (a test
   double, as in the service's unit tests): getAllQuotes may resolve to any
   DexQuote[], the empty one included *)

InitStub ==
    /\ InitBase
    /\ router = "stub"
    /\ concurrency = maxConcurrentOrders
    /\ selQuotes = << >>
    /\ selResult = NoRecord

NextStub ==
    \/ NextLive
    \/ CallSelectBestDex

StubSpec == InitStub /\ [][NextStub]_vars

(* The service with status handlers: registerStatusCallback accepts any
   function as the handler of an order id *)

\* faulty variant: a handler already registered for the id is kept
RegisterStatusCallbackIfNone(id, handler) ==
    /\ statusCallbacks' = [statusCallbacks EXCEPT
                             ![id] = IF @ = NoHandler THEN handler ELSE @]
    /\ lastRegistered' = [lastRegistered EXCEPT ![id] = handler]
    /\ UNCHANGED <<store, jobs, waiting, rlCount, rlTtl, shutdown, ignoredAdds, built,
                   selQuotes, selResult, gqProvider, gqResult, http, stats, gaResult, gaCall>>

RegisterStatusCallback(id, handler) ==
    /\ statusCallbacks' = [statusCallbacks EXCEPT ![id] = handler]
    /\ lastRegistered' = [lastRegistered EXCEPT ![id] = handler]
    /\ UNCHANGED <<store, jobs, waiting, rlCount, rlTtl, shutdown, ignoredAdds, built,
                   selQuotes, selResult, gqProvider, gqResult, http, stats, gaResult, gaCall>>

UnregisterStatusCallback(id) ==
    /\ statusCallbacks' = [statusCallbacks EXCEPT ![id] = NoHandler]
    /\ lastRegistered' = [lastRegistered EXCEPT ![id] = NoHandler]
    /\ UNCHANGED <<store, jobs, waiting, rlCount, rlTtl, shutdown, ignoredAdds, built,
                   selQuotes, selResult, gqProvider, gqResult, http, stats, gaResult, gaCall>>

\* one subscriber
OneHandler == {"h1"}

\* the first attempt of each job: no backoff delay elapses
NextHandler ==
    \/ \E id \in OrderIds, request \in OrderRequests : CreateOrder(id, request)
    \/ \E id \in OrderIds : AddOrder(id)
    \/ \E id \in OrderIds : StartJob(id)
    \/ \E id \in OrderIds : ProcessOrder(id)
    \/ \E id \in OrderIds, handler \in OneHandler : RegisterStatusCallback(id, handler)
    \/ \E id \in OrderIds : UnregisterStatusCallback(id)

HandlerSpec == Init /\ [][NextHandler]_vars

(* One order with its status handler, retries included *)

Watched == {"o1"}

NextRetry ==
    \/ \E id \in Watched, request \in OrderRequests : CreateOrder(id, request)
    \/ \E id \in Watched : AddOrder(id)
    \/ \E id \in Watched : StartJob(id)
    \/ \E id \in Watched : ProcessOrder(id)
    \/ \E id \in Watched : PromoteDelayed(id)
    \/ Tick
    \/ \E id \in Watched, handler \in OneHandler : RegisterStatusCallback(id, handler)
    \/ \E id \in Watched : UnregisterStatusCallback(id)

RetrySpec == Init /\ [][NextRetry]_vars

(* One order and the subscribers that come and go while its first attempt runs *)

NextSubscriber ==
    \/ \E id \in Watched, request \in OrderRequests : CreateOrder(id, request)
    \/ \E id \in Watched : AddOrder(id)
    \/ \E id \in Watched : StartJob(id)
    \/ \E id \in Watched : ProcessOrder(id)
    \/ \E id \in Watched, handler \in Handlers : RegisterStatusCallback(id, handler)
    \/ \E id \in Watched : UnregisterStatusCallback(id)

SubscriberSpec == Init /\ [][NextSubscriber]_vars

(* QueueService.getQueueStats: Promise.all over four count commands, each a
   round trip to Redis of its own, answered in the order they were sent *)

\* the jobs the queue holds in one state
Count(state) == Cardinality({ id \in OrderIds : jobs[id].state = state })

\* the jobs added so far, whatever became of them
Added == Cardinality({ id \in OrderIds : jobs[id].state # "none" })

\* getQueueStats is called; getWaitingCount is answered
GetWaitingCount ==
    /\ stats.pc = "idle"
    /\ stats' = [NoStats EXCEPT !.pc = "getActiveCount", !.added = Added,
                                !.waiting = Count("waiting")]
    /\ UNCHANGED <<store, jobs, waiting, rlCount, rlTtl, shutdown, ignoredAdds, built,
                   selQuotes, selResult, statusCallbacks, gqProvider, gqResult, http,
                   gaResult, lastRegistered, gaCall>>

GetActiveCount ==
    /\ stats.pc = "getActiveCount"
    /\ stats' = [stats EXCEPT !.pc = "getCompletedCount", !.active = Count("active")]
    /\ UNCHANGED <<store, jobs, waiting, rlCount, rlTtl, shutdown, ignoredAdds, built,
                   selQuotes, selResult, statusCallbacks, gqProvider, gqResult, http,
                   gaResult, lastRegistered, gaCall>>

\* faulty variant: the completed jobs are left out of the counts
GetCompletedCountSkipped ==
    /\ stats.pc = "getCompletedCount"
    /\ stats' = [stats EXCEPT !.pc = "getFailedCount"]
    /\ UNCHANGED <<store, jobs, waiting, rlCount, rlTtl, shutdown, ignoredAdds, built,
                   selQuotes, selResult, statusCallbacks, gqProvider, gqResult, http,
                   gaResult, lastRegistered, gaCall>>

GetCompletedCount ==
    /\ stats.pc = "getCompletedCount"
    /\ stats' = [stats EXCEPT !.pc = "getFailedCount", !.completed = Count("completed")]
    /\ UNCHANGED <<store, jobs, waiting, rlCount, rlTtl, shutdown, ignoredAdds, built,
                   selQuotes, selResult, statusCallbacks, gqProvider, gqResult, http,
                   gaResult, lastRegistered, gaCall>>

\* getFailedCount is answered: Promise.all resolves and the counts are returned
GetFailedCount ==
    /\ stats.pc = "getFailedCount"
    /\ stats' = [stats EXCEPT !.pc = "returned", !.failed = Count("failed")]
    /\ UNCHANGED <<store, jobs, waiting, rlCount, rlTtl, shutdown, ignoredAdds, built,
                   selQuotes, selResult, statusCallbacks, gqProvider, gqResult, http,
                   gaResult, lastRegistered, gaCall>>

\* the caller has the counts; the next call may come
StatsDone ==
    /\ stats.pc = "returned"
    /\ stats' = NoStats
    /\ UNCHANGED <<store, jobs, waiting, rlCount, rlTtl, shutdown, ignoredAdds, built,
                   selQuotes, selResult, statusCallbacks, gqProvider, gqResult, http,
                   gaResult, lastRegistered, gaCall>>

GetQueueStats ==
    \/ GetWaitingCount
    \/ GetActiveCount
    \/ GetCompletedCount
    \/ GetFailedCount
    \/ StatsDone

\* the call the counts are asked of: made, any number of times, once every
\* order id has been added (each id is added once)
NextStats ==
    \/ \E id \in OrderIds, request \in OrderRequests : CreateOrder(id, request)
    \/ \E id \in OrderIds : jobs[id].state = "none" /\ AddOrder(id)
    \/ \E id \in OrderIds : StartJob(id)
    \/ \E id \in OrderIds : ProcessOrder(id)
    \/ \E id \in OrderIds : PromoteDelayed(id)
    \/ Tick
    \/ (Added = Cardinality(OrderIds) /\ GetQueueStats)

StatsSpec == Init /\ [][NextStats]_vars

------------------------------------------------------------------------------
(* Claims *)

NoQuotesAvailable == "No quotes available"

\* the job of order id is inside an invocation of processOrder that loaded
\* the order with a terminal status
RunsOnTerminal(id) ==
    /\ jobs[id].state = "active"
    /\ jobs[id].order # NoRecord
    /\ IsTerminal(jobs[id].order.status)

\* C1: processOrder on an order whose persisted status is already CONFIRMED
\* or FAILED is a no-op: no getAllQuotes, no executeSwap, no status update
\* emitted, every stored field unchanged
C1_TerminalIsNoOp ==
    [][\A id \in OrderIds :
          RunsOnTerminal(id) =>
              /\ store' = store
              /\ jobs'[id].quoteCalls = jobs[id].quoteCalls
              /\ jobs'[id].swapCalls = jobs[id].swapCalls
              /\ jobs'[id].emits = jobs[id].emits]_vars

\* C2: once an order's persisted status is CONFIRMED or FAILED, no later
\* operation changes it to a non-terminal status
C2_TerminalNeverRegresses ==
    [][\A id \in DOMAIN store :
          IsTerminal(store[id].status) => IsTerminal(store'[id].status)]_vars

\* C3: every order created by createOrder and handed to addOrder eventually
\* has persisted status CONFIRMED or FAILED
C3_EventuallyTerminal ==
    \A id \in OrderIds :
        (id \in DOMAIN store /\ jobs[id].state # "none")
            ~> (id \in DOMAIN store /\ IsTerminal(store[id].status))

\* an added order whose run ended with a terminal status persisted
C3_Witness ==
    \E id \in DOMAIN store :
        /\ jobs[id].state = "completed"
        /\ store[id].status = CONFIRMED

\* C4: addOrder for an order id that already has a job changes nothing in the
\* queue, an order id is never twice in the wait list, and a job none of
\* whose attempts failed has had processOrder invoked at most once
C4_AddOrderOnce ==
    /\ [][\A id \in OrderIds :
            (jobs[id].state # "none" /\ ignoredAdds' = ignoredAdds + 1)
                => (jobs' = jobs /\ waiting' = waiting /\ store' = store)]_vars
    /\ [](\A id \in OrderIds :
            /\ Cardinality({i \in 1..Len(waiting) : waiting[i] = id}) <= 1
            /\ (jobs[id].state = "waiting") = (\E i \in 1..Len(waiting) : waiting[i] = id)
            /\ jobs[id].attemptsMade = 0 => jobs[id].runs <= 1)

\* addOrder was called again for the only order that has a job, before that
\* job completed, and the job is at the end of its only invocation
C4_Witness ==
    \E id \in OrderIds :
        /\ ignoredAdds = 1
        /\ \A other \in OrderIds \ {id} : jobs[other].state = "none"
        /\ At(id, "emitConfirmed")
        /\ jobs[id].runs = 1

\* C5: processOrder is invoked at most maxRetryAttempts times for a job; a
\* job all of whose attempts failed has had exactly maxRetryAttempts
\* invocations and is failed, and a failed job is never invoked again
C5_AtMostMaxAttempts ==
    /\ [](\A id \in OrderIds :
            /\ jobs[id].runs <= maxRetryAttempts
            /\ jobs[id].attemptsMade <= maxRetryAttempts
            /\ (jobs[id].state = "failed")
                  = (jobs[id].attemptsMade = maxRetryAttempts)
            /\ jobs[id].state = "failed" => jobs[id].runs = maxRetryAttempts)
    /\ [][\A id \in OrderIds :
            jobs[id].state = "failed" => jobs'[id] = jobs[id]]_vars

\* a job that failed for good after maxRetryAttempts invocations
C5_Witness ==
    \E id \in DOMAIN store :
        /\ jobs[id].state = "failed"
        /\ jobs[id].runs = maxRetryAttempts
        /\ store[id].status = FAILED

\* C6: after a job has exhausted its maxRetryAttempts failing attempts the
\* order's retryCount reflects the attempts made (it is not still 0)
C6_RetryCountReflectsAttempts ==
    \A id \in DOMAIN store :
        jobs[id].state = "failed" =>
            store[id].retryCount \in {maxRetryAttempts - 1, maxRetryAttempts}

\* C7: the number of processOrder invocations in progress never exceeds
\* maxConcurrentOrders
C7_ConcurrencyBound ==
    Cardinality({ id \in OrderIds : jobs[id].state = "active" /\ jobs[id].pc # "idle" })
        <= maxConcurrentOrders

\* as many invocations in progress as allowed, and a job waiting behind them
C7_Witness ==
    /\ Cardinality(ActiveJobs) = maxConcurrentOrders
    /\ waiting # << >>
    /\ shutdown = "open"
    /\ ~RateLimited

\* C8: at most ordersPerMinute jobs are started in a limiter window; while the
\* quota of the window is used up no job is started; a waiting job stays in
\* the queue until it is started, and it is started
C8_RateLimit ==
    /\ [](rlCount <= ordersPerMinute)
    /\ [][\A id \in OrderIds :
            /\ (RateLimited /\ jobs[id].state # "active") => jobs'[id].state # "active"
            /\ jobs[id].state = "waiting" => jobs'[id].state \in {"waiting", "active"}]_vars
    /\ \A id \in OrderIds :
            (jobs[id].state = "waiting" /\ RateLimited) ~> (jobs[id].state = "active")

\* the quota of the open window is used up and only that keeps a job waiting
C8_Witness ==
    /\ RateLimited
    /\ rlCount = ordersPerMinute
    /\ waiting # << >>
    /\ ActiveJobs = {}

\* the index of the first quote of maximal amountOut
FirstMaximal(quotes) ==
    CHOOSE i \in 1..Len(quotes) :
        /\ \A j \in 1..Len(quotes) : quotes[j].amountOut <= quotes[i].amountOut
        /\ \A j \in 1..(i - 1) : quotes[j].amountOut < quotes[i].amountOut

\* C9: on a non-empty list selectBestDex returns the provider of the first
\* quote, in input order, whose amountOut is maximal
C9_SelectsFirstMaximal ==
    (selResult # NoRecord /\ Len(selQuotes) > 0) =>
        /\ ~selResult.threw
        /\ selResult.provider = selQuotes[FirstMaximal(selQuotes)].provider

\* selectBestDex has answered on a list whose maximum is shared by quotes of
\* both providers
C9_Witness ==
    /\ selResult # NoRecord
    /\ Len(selQuotes) >= 2
    /\ \E i, j \in 1..Len(selQuotes) :
          /\ i < j
          /\ selQuotes[i].provider # selQuotes[j].provider
          /\ selQuotes[i].amountOut = selQuotes[j].amountOut
          /\ \A k \in 1..Len(selQuotes) : selQuotes[k].amountOut <= selQuotes[i].amountOut

\* C10: selectBestDex on the empty list throws 'No quotes available' and
\* returns no provider; inside processOrder that error is written to the
\* order with status FAILED before it is thrown again to the worker, which
\* counts the attempt as failed
C10_NoQuotesIsFailure ==
    /\ [](selResult # NoRecord =>
            /\ selResult.threw
            /\ selResult.message = NoQuotesAvailable
            /\ selResult.provider = NULL)
    /\ [](\A id \in OrderIds :
            jobs[id].message = NoQuotesAvailable =>
                /\ jobs[id].pc \in {"toFailed", "emitFailed"}
                /\ jobs[id].bestDex = NULL
                /\ jobs[id].swapCalls = 0
                /\ jobs[id].pc = "emitFailed" =>
                      /\ store[id].status = FAILED
                      /\ store[id].error = NoQuotesAvailable)
    /\ [][\A id \in OrderIds :
            (jobs[id].message = NoQuotesAvailable /\ jobs'[id] # jobs[id]) =>
                \/ /\ jobs[id].pc = "toFailed"
                   /\ jobs'[id].pc = "emitFailed"
                   /\ jobs'[id].message = NoQuotesAvailable
                \/ /\ jobs[id].pc = "emitFailed"
                   /\ jobs'[id].state \in {"delayed", "failed"}
                   /\ jobs'[id].attemptsMade = jobs[id].attemptsMade + 1]_vars

\* the direct call on the empty list has thrown, and an invocation of
\* processOrder that was given no quotes has written FAILED with the error
C10_Witness ==
    /\ selResult # NoRecord
    /\ \E id \in DOMAIN store :
          /\ At(id, "emitFailed")
          /\ jobs[id].message = NoQuotesAvailable
          /\ store[id].error = NoQuotesAvailable

\* C13: processOrder invoked for an order id that has no stored order fails
\* with an error that is not retried: the job of such an id has no second
\* invocation
C13_NotFoundNotRetried ==
    \A id \in OrderIds :
        (id \notin DOMAIN store) => jobs[id].runs <= 1

\* C15: when getAllQuotes or executeSwap fails inside processOrder, FAILED and
\* a non-empty error text are persisted before the error reaches the worker;
\* the worker never gets a failure for a stored order whose status is not
\* FAILED
C15_FailedBeforeRethrow ==
    /\ [](\A id \in DOMAIN store :
            /\ jobs[id].message # NULL =>
                  /\ jobs[id].message # ""
                  /\ jobs[id].pc \in {"toFailed", "emitFailed"}
                  /\ jobs[id].pc = "emitFailed" =>
                        /\ store[id].status = FAILED
                        /\ store[id].error = jobs[id].message
            /\ jobs[id].state \in {"delayed", "failed"} =>
                  /\ store[id].status = FAILED
                  /\ store[id].error \notin {NULL, ""})
    /\ [][\A id \in DOMAIN store :
            (jobs[id].state = "active" /\ jobs'[id].state \in {"delayed", "failed"}) =>
                /\ store[id].status = FAILED
                /\ store[id].error \notin {NULL, ""}
                /\ store' = store]_vars

\* a venue call failed with an error without a message, FAILED was written
\* with the default text, and the worker has scheduled the retry
C15_Witness ==
    \E id \in DOMAIN store :
        /\ jobs[id].state = "delayed"
        /\ jobs[id].attemptsMade = 1
        /\ store[id].status = FAILED
        /\ store[id].error = "Unknown error occurred"

\* C16: once dexProvider, txHash or executedPrice of an order has a value, no
\* later operation changes it to another value
C16_VenueFieldsImmutable ==
    [][\A id \in DOMAIN store :
          /\ store[id].dexProvider # NULL => store'[id].dexProvider = store[id].dexProvider
          /\ store[id].txHash # NULL => store'[id].txHash = store[id].txHash
          /\ store[id].executedPrice # NoNumber =>
                store'[id].executedPrice = store[id].executedPrice]_vars

\* the awaits of processOrder that write the order
PersistPcs == {"toRouting", "toBuilding", "toSubmitted", "toConfirmed", "toFailed"}

C11_AllOrNothing ==
    /\ [](\A id \in OrderIds :
            (jobs[id].quoted # << >> /\ \E i \in 1..Len(jobs[id].quoted) : ~jobs[id].quoted[i]) =>
                /\ jobs[id].pc \in {"toFailed", "emitFailed"}
                /\ jobs[id].message # NULL
                /\ jobs[id].bestDex = NULL
                /\ jobs[id].swapCalls = 0
                /\ (jobs[id].pc = "emitFailed" /\ id \in DOMAIN store) =>
                      store[id].status = FAILED)
    /\ [](\A id \in OrderIds :
            jobs[id].pc \in {"toBuilding", "emitBuilding", "toSubmitted", "emitSubmitted",
                             "executeSwap", "toConfirmed", "emitConfirmed"} =>
                (router = "mock" => jobs[id].quoted = [i \in 1..Len(Providers) |-> TRUE]))

\* one provider's getQuote resolved, the other's failed, and the invocation
\* has written FAILED
C11_Witness ==
    \E id \in DOMAIN store :
        /\ At(id, "emitFailed")
        /\ jobs[id].quoted = <<TRUE, FALSE>>
        /\ store[id].status = FAILED

\* C14: the persist and the emit of a status transition are one step for an
\* observer: in every state the status a stored order has after a transition
\* is the status of the last update emitted for it
C14_PersistEmitAtomic ==
    \A id \in DOMAIN store :
        /\ store[id].status # PENDING => jobs[id].emitted = store[id].status
        /\ jobs[id].emitted # NULL => jobs[id].emitted = store[id].status

C19_DeliveryFailureNotPropagated ==
    [][\A id \in OrderIds :
          /\ jobs'[id].message # ErrorMessage(HandlerFailed)
          /\ (id \in DOMAIN store /\ store[id].status = CONFIRMED) =>
                store'[id].status = CONFIRMED]_vars

UnknownProvider == "UnknownProvider"

\* C12: getQuote called with a provider identifier that is not a registered
\* provider fails with UnknownProvider and returns no quote
C12_UnknownProviderFails ==
    (gqResult # NoRecord /\ gqProvider \notin DexProvider) =>
        /\ ~gqResult.outcome.ok
        /\ gqResult.outcome.message = UnknownProvider
        /\ gqResult.fee = NoNumber

\* C20: a submission whose type is not MARKET, or whose body fails validation,
\* is answered 400 and has no effect: the step that rejects it leaves the
\* orders table and the queue as they are, no order is created for it and
\* addOrder is not called for it
C20_RejectedHasNoEffect ==
    /\ [](http.pc # "idle" =>
            /\ (~SchemaAccepts(http.body) \/ http.body.type # MARKET) =>
                  /\ http.pc = "replied"
                  /\ http.status = BadRequest
                  /\ http.orderId = NULL
            /\ http.status = BadRequest => http.orderId = NULL)
    /\ [][(http'.pc # "idle" /\ (http'.status = BadRequest \/ http.status = BadRequest))
            => (store' = store /\ jobs' = jobs /\ waiting' = waiting)]_vars

\* a LIMIT submission, well-formed otherwise, was rejected after a MARKET
\* order had been accepted and queued
C20_Witness ==
    /\ http.pc = "replied"
    /\ http.status = BadRequest
    /\ SchemaAccepts(http.body)
    /\ http.body.type = LIMIT
    /\ store # << >>
    /\ waiting # << >>

\* C21: for a valid MARKET submission the order is saved first, with status
\* PENDING and retryCount 0, and only then is its id handed to addOrder; the
\* reply of an accepted submission carries that orderId with status 'pending';
\* when createOrder fails nothing is enqueued
C21_SavedBeforeEnqueued ==
    /\ [](http.pc = "addOrder" =>
            /\ http.orderId \in DOMAIN store
            /\ store[http.orderId].status = PENDING
            /\ store[http.orderId].retryCount = 0)
    /\ [](http.pc = "replied" /\ http.status \in {Ok, Created} =>
            /\ http.sent = [orderId |-> http.orderId, status |-> PENDING]
            /\ http.orderId \in DOMAIN store
            /\ jobs[http.orderId].state = "waiting")
    /\ [][\A id \in OrderIds :
            (jobs[id].state = "none" /\ jobs'[id].state # "none") =>
                /\ http.pc = "addOrder"
                /\ http.orderId = id
                /\ id \in DOMAIN store
                /\ store[id].status = PENDING]_vars
    /\ [][(http.pc = "createOrder" /\ http'.status = InternalError) =>
            (store' = store /\ jobs' = jobs /\ waiting' = waiting)]_vars

\* an accepted submission was answered 201 with its orderId: its order is
\* saved, still PENDING, and its job waits in the queue
C21_Witness ==
    /\ http.pc = "replied"
    /\ http.status = Created
    /\ http.sent.orderId = "o1"
    /\ store["o1"].status = PENDING
    /\ jobs["o1"].state = "waiting"
    /\ DOMAIN store = {"o1"}

\* the added jobs that have had an attempt fail
Retried == { id \in OrderIds : jobs[id].attemptsMade > 0 }

C23_NothingStartsAfterClose ==
    /\ [](shutdown = "closed" =>
            \A id \in OrderIds : jobs[id].state # "active" /\ jobs[id].pc = "idle")
    /\ [][shutdown = "closed" =>
            /\ shutdown' = "closed"
            /\ \A id \in OrderIds :
                  /\ jobs'[id].runs = jobs[id].runs
                  /\ jobs'[id].state = jobs[id].state]_vars

\* close() completed while one job waited in the queue and another, whose
\* first attempt had failed, awaited its retry
C23_Witness ==
    /\ shutdown = "closed"
    /\ \E id \in OrderIds : jobs[id].state = "waiting" /\ jobs[id].runs = 0
    /\ \E id \in OrderIds : jobs[id].state = "delayed" /\ jobs[id].runs = 1

C25_OneQuotePerProviderInOrder ==
    (gaResult # NoRecord /\ gaResult.outcome.ok) =>
        /\ Len(gaResult.outcome.quotes) = 2
        /\ gaResult.outcome.quotes[1].provider = RAYDIUM
        /\ gaResult.outcome.quotes[2].provider = METEORA

\* Meteora answered first, with the better amount, and Raydium's quote is
\* still the first of the two returned
C25_Witness ==
    /\ gaResult # NoRecord
    /\ gaResult.outcome.ok
    /\ gaResult.first = METEORA
    /\ gaResult.outcome.quotes[1] = [provider |-> RAYDIUM, amountOut |-> 10]
    /\ gaResult.outcome.quotes[2] = [provider |-> METEORA, amountOut |-> 12]

\* the sequences of statuses the lifecycle allows one invocation to persist,
\* complete or not yet
Lifecycle == <<ROUTING, BUILDING, SUBMITTED, CONFIRMED>>
LifecyclePrefixes == { SubSeq(Lifecycle, 1, k) : k \in 0..4 }
LifecycleFailures == { Append(SubSeq(Lifecycle, 1, k), FAILED) : k \in 0..3 }

\* C26: one invocation of processOrder on a stored order persists ROUTING,
\* BUILDING, SUBMITTED in this order, each once and none skipped, and then one
\* terminal status: CONFIRMED, or FAILED as the last status after a prefix of
\* the three; never both CONFIRMED and FAILED
C26_OneTerminalInOrder ==
    \A id \in DOMAIN store :
        /\ jobs[id].persisted \in LifecyclePrefixes \cup LifecycleFailures
        /\ jobs[id].state = "completed" => jobs[id].persisted = Lifecycle
        /\ (jobs[id].state \in {"delayed", "failed"} /\ jobs[id].runs > 0) =>
              jobs[id].persisted \in LifecycleFailures

\* the awaits of processOrder between a status write and its emit
EmitPcs == {"emitRouting", "emitBuilding", "emitSubmitted", "emitConfirmed", "emitFailed"}

\* C27: a handler that is registered for the order at every emit of an
\* invocation receives one update for each status the invocation persisted,
\* in the order they were persisted, each with the status just persisted;
\* only the update of a status written in the last step is still to come
C27_OneUpdatePerStatus ==
    /\ [](\A id \in DOMAIN store :
            (jobs[id].runs > 0 /\ Len(jobs[id].received) = jobs[id].emits) =>
                \/ jobs[id].received = jobs[id].persisted
                \/ /\ jobs[id].state = "active"
                   /\ jobs[id].pc \in EmitPcs
                   /\ jobs[id].persisted = Append(jobs[id].received, store[id].status))
    /\ [][\A id \in DOMAIN store :
            (statusCallbacks[id] # NoHandler /\ jobs'[id].emits = jobs[id].emits + 1) =>
                /\ jobs[id].pc \in EmitPcs
                /\ jobs'[id].received = Append(jobs[id].received, store[id].status)]_vars

\* the handler of a confirmed order has received the four updates of its
\* lifecycle and is still registered
C27_Witness ==
    \E id \in DOMAIN store :
        /\ statusCallbacks[id] # NoHandler
        /\ jobs[id].state = "completed"
        /\ jobs[id].emits = 4
        /\ jobs[id].received = <<ROUTING, BUILDING, SUBMITTED, CONFIRMED>>
        /\ store[id].status = CONFIRMED

\* C28: a retry runs the whole pipeline again, whatever the earlier attempts
\* left on the order: an invocation that finds the order goes on to the
\* ROUTING write, and executeSwap is called again by an invocation that has
\* itself persisted ROUTING, BUILDING and SUBMITTED, also when the swap of an
\* earlier attempt succeeded
C28_RetryRunsWholePipeline ==
    /\ [][\A id \in DOMAIN store :
            (jobs[id].pc = "findById" /\ jobs'[id].pc # "findById") =>
                /\ jobs'[id].pc = "toRouting"
                /\ jobs'[id].state = "active"]_vars
    /\ [](\A id \in DOMAIN store :
            jobs[id].pc \in {"executeSwap", "toConfirmed"} =>
                jobs[id].persisted = <<ROUTING, BUILDING, SUBMITTED>>)

\* executeSwap has succeeded a second time for one order: the first
\* attempt's swap succeeded and CONFIRMED was written with its txHash, the
\* handler threw on the CONFIRMED update, and the retry has swapped again
C28_Witness ==
    \E id \in DOMAIN store :
        /\ jobs[id].runs = 2
        /\ jobs[id].pc = "toConfirmed"
        /\ jobs[id].swapResult # NoRecord
        /\ store[id].txHash # NULL
        /\ store[id].error = HandlerFailed

\* C29: the k-th failed attempt of a job, k < maxRetryAttempts, sets a backoff
\* of 2000 * 2^(k-1) ms, 2000 after the first and 4000 after the second; the
\* backoff runs down only as time passes, and the job goes back to the queue,
\* to be started again, only when all of it has elapsed
C29_BackoffBeforeRetry ==
    [][\A id \in OrderIds :
        /\ (jobs[id].state = "active" /\ jobs'[id].state = "delayed") =>
              /\ jobs'[id].attemptsMade = jobs[id].attemptsMade + 1
              /\ jobs'[id].attemptsMade < maxRetryAttempts
              /\ jobs'[id].attemptsMade = 1 => jobs'[id].delay = 2000
              /\ jobs'[id].attemptsMade = 2 => jobs'[id].delay = 4000
        /\ (jobs[id].state = "delayed" /\ jobs'[id].state = "delayed") =>
              /\ jobs'[id].delay <= jobs[id].delay
              /\ jobs'[id].delay >= jobs[id].delay - TickMs
              /\ jobs'[id].delay < jobs[id].delay => rlTtl' = Max(0, rlTtl - TickMs)
        /\ (jobs[id].state = "delayed" /\ jobs'[id].state # "delayed") =>
              /\ jobs[id].delay = 0
              /\ jobs'[id].state = "waiting"
              /\ jobs'[id].runs = jobs[id].runs
        /\ jobs'[id].runs > jobs[id].runs => jobs[id].state = "waiting"]_vars

\* the second attempt of a job has failed and the job awaits its third
\* attempt with the whole backoff of 4000 ms still to run
C29_Witness ==
    \E id \in OrderIds :
        /\ jobs[id].state = "delayed"
        /\ jobs[id].attemptsMade = 2
        /\ jobs[id].delay = 4000

\* C30: when processOrder returns, the job is completed and stays so: it is
\* not retried, no invocation of processOrder is started for it again, adding
\* the id again included, and its order stays CONFIRMED
C30_CompletedIsFinal ==
    /\ [][\A id \in OrderIds :
            /\ (jobs[id].state = "active" /\ jobs[id].pc = "emitConfirmed"
                   /\ jobs'[id].pc # "emitConfirmed") =>
                  jobs'[id].state = "completed"
            /\ jobs[id].state = "completed" =>
                  /\ jobs'[id].state = "completed"
                  /\ jobs'[id].runs = jobs[id].runs
                  /\ jobs'[id].pc = "idle"]_vars
    /\ [](\A id \in OrderIds :
            jobs[id].state = "completed" =>
                /\ id \in DOMAIN store
                /\ store[id].status = CONFIRMED
                /\ id \notin { waiting[i] : i \in 1..Len(waiting) })

\* a job whose id was added twice completed at its second attempt, and the
\* order is CONFIRMED
C30_Witness ==
    \E id \in OrderIds :
        /\ jobs[id].state = "completed"
        /\ jobs[id].runs = 2
        /\ ignoredAdds = 1
        /\ store[id].status = CONFIRMED

\* the order has one of the fields that executeSwap's result fills
HasSwapFields(row) ==
    row.txHash # NULL \/ row.executedPrice # NoNumber \/ row.amountOut # NoNumber

\* C31: an order that is BUILDING, SUBMITTED or CONFIRMED carries the venue
\* selectBestDex returned in the running attempt; a CONFIRMED order carries
\* the txHash executeSwap returned and its executedPrice and amountOut as the
\* DECIMAL(20, 8) columns keep them, rounded to 8 decimals; no order that is
\* not CONFIRMED has any of the three
C31_VenueFieldsFollowStatus ==
    /\ [](\A id \in DOMAIN store :
            /\ store[id].status \in {BUILDING, SUBMITTED, CONFIRMED} =>
                  /\ store[id].dexProvider \in DexProvider
                  /\ jobs[id].state = "active" =>
                        store[id].dexProvider = jobs[id].bestDex
            /\ store[id].status = CONFIRMED =>
                  /\ store[id].txHash # NULL
                  /\ store[id].executedPrice # NoNumber
                  /\ store[id].amountOut # NoNumber
            /\ HasSwapFields(store[id]) => store[id].status = CONFIRMED)
    /\ [][\A id \in DOMAIN store :
            (store[id].status # CONFIRMED /\ store'[id].status = CONFIRMED) =>
                /\ store'[id].dexProvider = jobs[id].bestDex
                /\ store'[id].txHash = jobs[id].swapResult.txHash
                /\ store'[id].executedPrice = ToDecimal8(jobs[id].swapResult.executedPrice)
                /\ store'[id].amountOut = ToDecimal8(jobs[id].swapResult.amountOut)]_vars

\* the statement as the specification has it: the CONFIRMED order carries the
\* very values executeSwap returned
C31_SwapValuesStoredAsReturned ==
    [][\A id \in DOMAIN store :
        (store[id].status # CONFIRMED /\ store'[id].status = CONFIRMED) =>
            /\ store'[id].txHash = jobs[id].swapResult.txHash
            /\ store'[id].executedPrice = jobs[id].swapResult.executedPrice
            /\ store'[id].amountOut = jobs[id].swapResult.amountOut]_vars

\* an order was confirmed at its second attempt: it carries the venue chosen
\* in that attempt and the swap's txHash, amount and rounded price
C31_Witness ==
    \E id \in DOMAIN store :
        /\ jobs[id].state = "completed"
        /\ jobs[id].runs = 2
        /\ store[id].status = CONFIRMED
        /\ store[id].dexProvider = METEORA
        /\ store[id].txHash = "tx-a"
        /\ store[id].executedPrice = 20
        /\ store[id].amountOut = 30

\* C32: an order id has at most one handler, the one given to the last
\* register call that no unregister call has followed; an update of the
\* order goes to that handler alone, and to none after unregister until a
\* handler is registered again
C32_LastSubscriberWins ==
    /\ [](\A id \in OrderIds :
            /\ statusCallbacks[id] \in Handlers \cup {NoHandler}
            /\ statusCallbacks[id] = lastRegistered[id])
    /\ [][\A id \in OrderIds :
            jobs'[id].emits = jobs[id].emits + 1 =>
                IF lastRegistered[id] = NoHandler
                THEN /\ jobs'[id].received = jobs[id].received
                     /\ jobs'[id].receiver = jobs[id].receiver
                ELSE /\ Len(jobs'[id].received) = Len(jobs[id].received) + 1
                     /\ jobs'[id].receiver = lastRegistered[id]]_vars

\* h2 got the ROUTING update; the handler of the id was then unregistered and
\* the BUILDING update went to no handler
C32_Witness ==
    \E id \in OrderIds :
        /\ jobs[id].emits = 2
        /\ jobs[id].emitted = BUILDING
        /\ jobs[id].received = <<ROUTING>>
        /\ jobs[id].receiver = "h2"
        /\ statusCallbacks[id] = NoHandler

\* C33: getAllQuotes starts the getQuote calls of both providers before it
\* waits for any: a call that resolves has taken the time of the slower of
\* the two, and every call is over within that time, which is less than the
\* two latencies together
C33_QuotesFetchedConcurrently ==
    /\ gaCall.pc # "idle" =>
          /\ Len(gaCall.due) = 2
          /\ \A i \in 1..2 : gaCall.due[i] = gaCall.latency[i]
    /\ gaCall.pc = "done" =>
          /\ gaCall.elapsed <= Max(gaCall.latency[1], gaCall.latency[2])
          /\ gaCall.elapsed < gaCall.latency[1] + gaCall.latency[2]
          /\ gaCall.result.ok =>
                gaCall.elapsed = Max(gaCall.latency[1], gaCall.latency[2])

\* Raydium answered after 299 ms and Meteora after 200 ms: the two quotes were
\* there after 299 ms
C33_Witness ==
    /\ gaCall.pc = "done"
    /\ gaCall.result.ok
    /\ gaCall.latency = <<299, 200>>
    /\ gaCall.elapsed = 299
    /\ Len(gaCall.result.quotes) = 2

\* the job is suspended in getAllQuotes or in executeSwap
InVenueCall(id) ==
    jobs[id].state = "active" /\ jobs[id].pc \in {"getAllQuotes", "executeSwap"}

\* C34: a job suspended in a venue call holds one place of the pool and no
\* more: while it hangs with a place free and the rate quota not used up, a
\* waiting job of another stored order is started and its order reaches
\* CONFIRMED or FAILED, the hanging job never resuming
C34_SuspendedJobBlocksOnlyItself ==
    \A id \in OrderIds \ {Hanging} :
          (/\ InVenueCall(Hanging)
           /\ Cardinality(ActiveJobs) < concurrency
           /\ ~RateLimited
           /\ jobs[id].state = "waiting"
           /\ id \in DOMAIN store)
              ~> (~InVenueCall(Hanging)
                   \/ (id \in DOMAIN store /\ IsTerminal(store[id].status)))

\* the other order was confirmed while the job of the first still hung in
\* getAllQuotes
C34_Witness ==
    /\ InVenueCall(Hanging)
    /\ jobs[Hanging].pc = "getAllQuotes"
    /\ \E id \in DOMAIN store \ {Hanging} :
         /\ jobs[id].state = "completed"
         /\ store[id].status = CONFIRMED

\* the fields of an order that createOrder takes from its arguments
GivenFields(row) ==
    [ id |-> row.id, userId |-> row.userId, tokenIn |-> row.tokenIn,
      tokenOut |-> row.tokenOut, amountIn |-> row.amountIn ]

C36_ConfirmedHasNoError ==
    \A id \in DOMAIN store :
        store[id].status = CONFIRMED => store[id].error = NULL

\* an invocation of processOrder that has written no status, emitted no
\* update and called neither getAllQuotes nor executeSwap
NoSideEffect(job) ==
    /\ job.persisted = << >>
    /\ job.emits = 0
    /\ job.received = << >>
    /\ job.quoteCalls = 0
    /\ job.swapCalls = 0

\* C37: an invocation of processOrder for an id with no stored order ends in
\* its first step as a failed attempt, the store unchanged, and has then
\* written no status, emitted no update and called neither getAllQuotes nor
\* executeSwap; an invocation is past that step only for a stored order
C37_AbsentOrderFailsWithoutEffect ==
    /\ [](\A id \in OrderIds :
            /\ (jobs[id].state = "active" /\ jobs[id].pc # "findById")
                   => id \in DOMAIN store
            /\ (jobs[id].state \in {"delayed", "failed"} /\ id \notin DOMAIN store)
                   => NoSideEffect(jobs[id]))
    /\ [][\A id \in OrderIds :
            (/\ jobs[id].state = "active"
             /\ id \notin DOMAIN store
             /\ jobs'[id] # jobs[id])
                => /\ store' = store
                   /\ jobs'[id].state \in {"delayed", "failed"}
                   /\ NoSideEffect(jobs'[id])]_vars

\* the job of an id that was never created has had its first attempt fail
C37_Witness ==
    \E id \in OrderIds \ DOMAIN store :
        /\ jobs[id].state = "delayed"
        /\ jobs[id].runs = 1
        /\ jobs[id].attemptsMade = 1

\* the invocation of processOrder for the order is suspended in executeSwap
InExecuteSwap(id) ==
    jobs[id].state = "active" /\ jobs[id].pc = "executeSwap"

\* the invocation has persisted BUILDING and not yet left executeSwap
ProviderChosen(id) ==
    /\ jobs[id].state = "active"
    /\ jobs[id].pc \in {"emitBuilding", "toSubmitted", "emitSubmitted", "executeSwap"}

\* C38: an invocation of processOrder calls executeSwap at most once, and
\* only after its own getAllQuotes resolved with every quote, a provider was
\* selected and ROUTING, BUILDING, SUBMITTED were persisted in that order;
\* from the BUILDING update until executeSwap settles the provider on the
\* order is the one the invocation selected, which is the one the call is
\* made with, and while the call is pending the persisted status is SUBMITTED
C38_SwapOnlyWhenSubmitted ==
    /\ [](\A id \in OrderIds :
            /\ jobs[id].swapCalls <= 1
            /\ jobs[id].swapCalls = 1 =>
                  /\ jobs[id].quoteCalls = 1
                  /\ Len(jobs[id].persisted) >= 3
                  /\ SubSeq(jobs[id].persisted, 1, 3) = <<ROUTING, BUILDING, SUBMITTED>>
            /\ (jobs[id].state = "active" /\ jobs[id].swapCalls = 1) =>
                  /\ jobs[id].quoted # << >>
                  /\ \A i \in 1..Len(jobs[id].quoted) : jobs[id].quoted[i]
                  /\ jobs[id].bestDex \in DexProvider
            /\ ProviderChosen(id) =>
                  /\ id \in DOMAIN store
                  /\ store[id].dexProvider = jobs[id].bestDex
            /\ InExecuteSwap(id) =>
                  /\ jobs[id].swapCalls = 1
                  /\ store[id].status = SUBMITTED)
    /\ [][\A id \in OrderIds :
            /\ jobs'[id].swapCalls > jobs[id].swapCalls =>
                  /\ jobs[id].pc = "emitSubmitted"
                  /\ store[id].status = SUBMITTED
                  /\ store'[id].status = SUBMITTED
                  /\ store'[id].dexProvider = jobs'[id].bestDex
            /\ (ProviderChosen(id) /\ jobs'[id].state = "active") =>
                  jobs'[id].bestDex = jobs[id].bestDex]_vars

\* a retry is in executeSwap with the order SUBMITTED, after the first attempt
\* wrote its error
C38_Witness ==
    \E id \in DOMAIN store :
        /\ InExecuteSwap(id)
        /\ jobs[id].runs = 2
        /\ jobs[id].swapCalls = 1
        /\ store[id].status = SUBMITTED
        /\ store[id].error # NULL
        /\ store[id].dexProvider = jobs[id].bestDex
====
